---- MODULE Spec2Model ----
(***************************************************************************)
(* pycargo: the bootstrap pipeline of src/main.rs as a state machine.      *)
(* One run of main() is one behaviour.  The request (command line), the    *)
(* environment (file system entry at the project name, GITHUB_TOKEN, git   *)
(* configuration, availability of uv) are chosen in Init; every await      *)
(* point of main() whose result is propagated with `?` is one action, and  *)
(* the outcome of each external process, HTTP exchange and file system     *)
(* call is chosen nondeterministically among the outcomes it can have.     *)
(* Strings whose content the code inspects (trim, is_empty, format!) are   *)
(* sequences of one-character strings.                                     *)
(***************************************************************************)
EXTENDS Integers, Sequences, FiniteSets, TLC

\* Longest line the user types at an identity prompt (without the newline).
MaxInputLen == 2

VARIABLES
    args,        \* the parsed command line (struct Args)
    token,       \* GITHUB_TOKEN in the environment: <<>> unset, <<v>> set to v
    fsEntry,     \* what the file system holds at the project name
    files,       \* the project directory: file name -> content
    cwd,         \* the working directory of the process: "start" or "project"
    gitGlobal,   \* git configuration, global scope: key -> <<>> or <<value>>
    gitLocal,    \* git configuration visible from the start directory only
    uvCallable,  \* whether the uv executable can be spawned
    installed,   \* packages pip has installed into the Python environment
    stdout,      \* the captured output of the last `git config` read
    prompts,     \* the identity keys asked for on standard input, in order
    spawned,     \* the external command lines spawned so far, in order
    http,        \* the HTTP requests sent so far, in order
    repo,        \* the local repository of the project directory
    remote,      \* the repositories created at the hosting service
    pc,          \* the position of main(): the step it executes next
    exit,        \* "running", "ok" (exit code 0) or "err" (non-zero)
    failedAt     \* the step whose error ended the run, or "none"

vars == <<args, token, fsEntry, files, cwd, gitGlobal, gitLocal, uvCallable,
          installed, stdout, prompts, spawned, http, repo, remote, pc, exit, failedAt>>

----------------------------------------------------------------------------
(* Strings *)

NL == "\n"
SP == " "
Whitespace == {SP, NL}

RECURSIVE TrimStart(_)
TrimStart(s) ==
    IF s = <<>> THEN <<>>
    ELSE IF Head(s) \in Whitespace THEN TrimStart(Tail(s)) ELSE s

RECURSIVE TrimEnd(_)
TrimEnd(s) ==
    IF s = <<>> THEN <<>>
    ELSE IF s[Len(s)] \in Whitespace THEN TrimEnd(SubSeq(s, 1, Len(s) - 1)) ELSE s

\* str::trim
Trim(s) == TrimEnd(TrimStart(s))

\* Option::unwrap_or_else
UnwrapOr(opt, default) == IF opt = <<>> THEN default ELSE opt[1]

\* The lines a user can type: up to MaxInputLen characters, then Enter.
RECURSIVE SeqsUpTo(_, _)
SeqsUpTo(S, n) ==
    IF n = 0 THEN {<<>>}
    ELSE LET shorter == SeqsUpTo(S, n - 1)
         IN shorter \cup {Append(s, c) : s \in {t \in shorter : Len(t) = n - 1}, c \in S}

InputLines == {Append(s, NL) : s \in SeqsUpTo({"b", SP}, MaxInputLen)}

----------------------------------------------------------------------------
(* The request and the environment *)

ProjectName == <<"p">>
SetupTypes == {"basic", "advanced", "data-science", "blank", "fancy"}
RepoNames == {<<>>, << <<"r">> >>}
Tokens == {<<>>, << <<>> >>, << <<"t">> >>}
Entries == {"absent", "file", "dangling"}
GitKeys == {"user.name", "user.email"}

ArgsSet == [name : {ProjectName}, github_repo : BOOLEAN,
            github_repo_name : RepoNames, setup : SetupTypes, private : BOOLEAN]

GitGlobals == {[k \in GitKeys |-> IF k = "user.name" THEN n ELSE e] :
                  n \in {<<>>, << <<>> >>, << <<"a">> >>},
                  e \in {<<>>, << <<"e">> >>}}
GitLocals == {[k \in GitKeys |-> IF k = "user.name" THEN n ELSE <<>>] :
                  n \in {<<>>, << <<"l">> >>}}

NoRepo == [inited |-> FALSE, autocrlf |-> FALSE, staged |-> {}, commits |-> <<>>,
           branch |-> "none", origin |-> <<>>, pushed |-> FALSE]

----------------------------------------------------------------------------
(* The order of main() *)

\* A variant of MainSteps: the repository is initialised and committed before
\* the two downloads.
MainStepsCommitFirst ==
    <<"metadata", "create_dir",
      "get_user.name", "set_user.name", "get_user.email", "set_user.email",
      "uv_version", "pip_install", "set_current_dir",
      "uv_init", "uv_venv",
      "write_requirements", "uv_add", "uv_sync",
      "git_init", "git_autocrlf", "git_add", "git_commit",
      "get_gitignore", "get_license",
      "validate_env_vars", "post_repo",
      "git_branch", "git_username", "git_remote_add", "git_push",
      "completed">>

\* The await points of main() in program order; "completed" is the final Ok(()).
MainSteps ==
    <<"metadata", "create_dir",
      "get_user.name", "set_user.name", "get_user.email", "set_user.email",
      "uv_version", "pip_install", "set_current_dir",
      "uv_init", "uv_venv",
      "write_requirements", "uv_add", "uv_sync",
      "get_gitignore", "get_license",
      "git_init", "git_autocrlf", "git_add", "git_commit",
      "validate_env_vars", "post_repo",
      "git_branch", "git_username", "git_remote_add", "git_push",
      "completed">>

\* A variant of FirstStep: the identity check runs before the existence check.
FirstStepIdentity == "get_user.name"

FirstStep == MainSteps[1]

IndexOf(step) == CHOOSE i \in 1..Len(MainSteps) : MainSteps[i] = step

\* The statement that follows `step` in program order.
After(step) == MainSteps[IndexOf(step) + 1]

GetStep == [k \in GitKeys |-> IF k = "user.name" THEN "get_user.name" ELSE "get_user.email"]
SetStep == [k \in GitKeys |-> IF k = "user.name" THEN "set_user.name" ELSE "set_user.email"]

----------------------------------------------------------------------------
(* Results of the calls main() makes *)

ProcOutcomes == {"spawn_err", "nonzero", "ok"}
IoOutcomes == {"ok", "err"}

\* run(): Ok only when the process was spawned and exited with status 0.
RunOk(o) == o = "ok"

\* Command::output(): Err only when the process cannot be spawned.
OutputOk(o) == o # "spawn_err"

\* fs::metadata(project_name).is_ok(): metadata follows symbolic links.
MetadataIsOk(entry) == entry = "file"

\* fs::create_dir: fails when the path exists (in any form) or on an I/O error.
CreateDirOk(entry, o) == entry = "absent" /\ o = "ok"

\* env::var("GITHUB_TOKEN").is_err()
EnvVarIsErr(tok) == tok = <<>>

\* A variant of EntryOnError: the directory the run created is removed again.
EntryOnErrorRemoved(entry) == IF entry = "created" THEN "absent" ELSE entry

\* What an error return of main() leaves at the project name.
EntryOnError(entry) == entry

\* A variant of IsSuccess: only server errors count as failures.
IsSuccessBelow500(status) == status >= 200 /\ status <= 499

\* StatusCode::is_success
IsSuccess(status) == status >= 200 /\ status <= 299

Statuses == {200, 201, 401, 404}

\* An HTTP exchange: a transport failure, or a status and a body that can be
\* read or not.
Responses ==
    {[transport |-> TRUE, status |-> 0, body_ok |-> FALSE]} \cup
    {[transport |-> FALSE, status |-> st, body_ok |-> b] : st \in Statuses, b \in BOOLEAN}

\* The hosting service never accepts an empty bearer token.
PostResponses(tok) ==
    IF tok = <<>> THEN {r \in Responses : r.transport \/ ~IsSuccess(r.status)}
    ELSE Responses

\* create_requirements_file, lines 197-206: the template of a setup type,
\* <<>> for an unknown one.
TemplateContent(setup) ==
    CASE setup = "basic" -> <<"BASIC_TEMPLATE">>
      [] setup = "advanced" -> <<"ADVANCED_TEMPLATE">>
      [] setup = "data-science" -> <<"DATASCIENCE_TEMPLATE">>
      [] setup = "blank" -> <<"">>
      [] OTHER -> <<>>

\* A variant of InstallsRequirements: the requirements are installed for
\* every template whose content was written.
InstallsRequirementsAlways(setup) == TRUE

\* create_requirements_file, line 212
InstallsRequirements(setup) == setup # "blank"

\* The document a URL serves, as response.text() returns it.
Body(url) == IF url = "GITIGNORE_URL" THEN "Python.gitignore" ELSE "LICENSE-2.0.txt"

\* A variant of RemoteUrl: the URL is built from the project name.
RemoteUrlProjectName(username, repo_name) ==
    <<"https://github.com/">> \o username \o <<"/">> \o args.name \o <<".git">>

\* setup_github_remote, line 273
RemoteUrl(username, repo_name) ==
    <<"https://github.com/">> \o username \o <<"/">> \o repo_name \o <<".git">>

\* main, lines 124-127
RepoName == UnwrapOr(args.github_repo_name, args.name)

\* What `git add .` stages: every file not excluded by the ignore rules.
Stageable(f) ==
    {n \in DOMAIN f : ~(n = ".venv" /\ ".gitignore" \in DOMAIN f)}

\* The outcomes a uv invocation can have.
UvOutcomes == IF uvCallable THEN {"ok", "nonzero"} ELSE {"spawn_err"}

\* `git config --get key` run in the start directory: the narrowest scope wins.
EffectiveConfig(key) == IF gitLocal[key] # <<>> THEN gitLocal[key] ELSE gitGlobal[key]

\* A variant of ConfigOutput: the captured output is always empty (as when
\* the wrong stream is captured).
ConfigOutputEmpty(value) == <<>>

\* What `git config` prints for a value: the value and a newline, or nothing.
ConfigOutput(value) == IF value = <<>> THEN <<>> ELSE Append(value[1], NL)

Spawn(cmd) == spawned' = Append(spawned, [cmd |-> cmd, cwd |-> cwd])

Put(f, name, content) ==
    [n \in DOMAIN f \cup {name} |-> IF n = name THEN content ELSE f[n]]

\* A variant of ExitOnError: the error is reported and the process exits 0.
ExitOnErrorSwallowed == "ok"

\* The exit status of the process when main() returns an Err.
ExitOnError == "err"

\* A variant of Bail: the failed step is tried again.
BailRetry(step) ==
    /\ pc' = step
    /\ UNCHANGED <<exit, failedAt, fsEntry>>

\* `?` on an Err: main() returns the error at once.
Bail(step) ==
    /\ pc' = "done"
    /\ exit' = ExitOnError
    /\ failedAt' = step
    /\ fsEntry' = EntryOnError(fsEntry)

Goto(step) ==
    /\ pc' = step
    /\ UNCHANGED <<exit, failedAt>>

----------------------------------------------------------------------------
Init ==
    /\ args \in ArgsSet
    /\ token \in Tokens
    /\ fsEntry \in Entries
    /\ files = <<>>
    /\ cwd = "start"
    /\ gitGlobal \in GitGlobals
    /\ gitLocal \in GitLocals
    /\ uvCallable \in BOOLEAN
    /\ installed = {}
    /\ stdout = <<>>
    /\ prompts = <<>>
    /\ spawned = <<>>
    /\ http = <<>>
    /\ repo = NoRepo
    /\ remote = {}
    /\ pc = FirstStep
    /\ exit = "running"
    /\ failedAt = "none"

----------------------------------------------------------------------------
(* main(): project directory, identity, uv *)

\* main, lines 63-69: the project name must not exist yet.
MetadataCheck ==
    /\ pc = "metadata"
    /\ IF MetadataIsOk(fsEntry)
         THEN Bail("metadata")
         ELSE Goto(After("metadata")) /\ UNCHANGED fsEntry
    /\ UNCHANGED <<args, token, files, cwd, gitGlobal, gitLocal, uvCallable,
                   installed, stdout, prompts, spawned, http, repo, remote>>

\* main, line 72: fs::create_dir(project_name).await?
CreateDir ==
    /\ pc = "create_dir"
    /\ \E o \in IoOutcomes :
         IF CreateDirOk(fsEntry, o)
           THEN fsEntry' = "created" /\ Goto(After("create_dir"))
           ELSE Bail("create_dir")
    /\ UNCHANGED <<args, token, files, cwd, gitGlobal, gitLocal, uvCallable,
                   installed, stdout, prompts, spawned, http, repo, remote>>

\* check_git_config, lines 380-386 and 401-404: read the key; a non-empty
\* output means the key is configured.
GitConfigGet(key) ==
    /\ pc = GetStep[key]
    /\ Spawn(IF key = "user.name" THEN "git config --get user.name"
                                  ELSE "git config --get user.email")
    /\ \E o \in {"spawn_err", "ran"} :
         IF OutputOk(o)
           THEN /\ stdout' = ConfigOutput(EffectiveConfig(key))
                /\ Goto(IF stdout' = <<>> THEN SetStep[key] ELSE After(SetStep[key]))
                /\ UNCHANGED fsEntry
           ELSE Bail(GetStep[key]) /\ UNCHANGED stdout
    /\ UNCHANGED <<args, token, files, cwd, gitGlobal, gitLocal, uvCallable,
                   installed, prompts, http, repo, remote>>

\* check_git_config, lines 387-400, with get_user_input: prompt, read a
\* line, trim it and store it in the global scope.
GitConfigSet(key) ==
    /\ pc = SetStep[key]
    /\ prompts' = Append(prompts, key)
    /\ Spawn(IF key = "user.name" THEN "git config --global user.name <input>"
                                  ELSE "git config --global user.email <input>")
    /\ \E line \in InputLines, o \in ProcOutcomes :
         IF RunOk(o)
           THEN /\ gitGlobal' = [gitGlobal EXCEPT ![key] = <<Trim(line)>>]
                /\ Goto(After(SetStep[key]))
                /\ UNCHANGED fsEntry
           ELSE Bail(SetStep[key]) /\ UNCHANGED gitGlobal
    /\ UNCHANGED <<args, token, files, cwd, gitLocal, uvCallable,
                   installed, stdout, http, repo, remote>>

\* check_uv_installation, lines 159 and 164-167: probe uv; the error of the
\* probe is inspected, not propagated.
UvVersion ==
    /\ pc = "uv_version"
    /\ Spawn("uv --version")
    /\ \E o \in UvOutcomes :
         Goto(IF RunOk(o) THEN After("pip_install") ELSE "pip_install")
    /\ UNCHANGED <<args, token, fsEntry, files, cwd, gitGlobal, gitLocal, uvCallable,
                   installed, stdout, prompts, http, repo, remote>>

\* check_uv_installation, lines 160-163: install uv with pip.  A successful
\* install puts uv into the environment; its script directory may or may not
\* be on the search path.
PipInstall ==
    /\ pc = "pip_install"
    /\ Spawn("pip install uv")
    /\ \E o \in ProcOutcomes :
         IF RunOk(o)
           THEN /\ installed' = installed \cup {"uv"}
                /\ uvCallable' \in {TRUE, uvCallable}
                /\ Goto(After("pip_install"))
                /\ UNCHANGED fsEntry
           ELSE Bail("pip_install") /\ UNCHANGED <<installed, uvCallable>>
    /\ UNCHANGED <<args, token, files, cwd, gitGlobal, gitLocal,
                   stdout, prompts, http, repo, remote>>

\* A variant of SetCurrentDir: the working directory is left where it was.
SetCurrentDirSkipped ==
    /\ pc = "set_current_dir"
    /\ Goto(After("set_current_dir"))
    /\ UNCHANGED <<args, token, fsEntry, files, cwd, gitGlobal, gitLocal, uvCallable,
                   installed, stdout, prompts, spawned, http, repo, remote>>

\* main, line 88: env::set_current_dir(project_name)?
SetCurrentDir ==
    /\ pc = "set_current_dir"
    /\ \E o \in IoOutcomes :
         IF o = "ok" /\ fsEntry = "created"
           THEN cwd' = "project" /\ Goto(After("set_current_dir")) /\ UNCHANGED fsEntry
           ELSE Bail("set_current_dir") /\ UNCHANGED cwd
    /\ UNCHANGED <<args, token, files, gitGlobal, gitLocal, uvCallable,
                   installed, stdout, prompts, spawned, http, repo, remote>>

----------------------------------------------------------------------------
(* main(): environment, manifest, downloads *)

\* setup_environment, line 176: uv init .
UvInit ==
    /\ pc = "uv_init"
    /\ Spawn("uv init .")
    /\ \E o \in UvOutcomes :
         IF RunOk(o)
           THEN /\ files' = Put(files, "pyproject.toml", "uv")
                /\ Goto(After("uv_init"))
                /\ UNCHANGED fsEntry
           ELSE Bail("uv_init") /\ UNCHANGED files
    /\ UNCHANGED <<args, token, cwd, gitGlobal, gitLocal, uvCallable,
                   installed, stdout, prompts, http, repo, remote>>

\* setup_environment, line 184: uv venv .venv
UvVenv ==
    /\ pc = "uv_venv"
    /\ Spawn("uv venv .venv")
    /\ \E o \in UvOutcomes :
         IF RunOk(o)
           THEN /\ files' = Put(files, ".venv", "uv")
                /\ Goto(After("uv_venv"))
                /\ UNCHANGED fsEntry
           ELSE Bail("uv_venv") /\ UNCHANGED files
    /\ UNCHANGED <<args, token, cwd, gitGlobal, gitLocal, uvCallable,
                   installed, stdout, prompts, http, repo, remote>>

\* create_requirements_file, lines 197-212: resolve the template, write
\* requirements.txt, decide whether the requirements are installed.
WriteRequirements ==
    /\ pc = "write_requirements"
    /\ LET content == TemplateContent(args.setup) IN
         IF content = <<>>
           THEN Bail("write_requirements") /\ UNCHANGED files
           ELSE \E o \in IoOutcomes :
                  IF o = "ok"
                    THEN /\ files' = Put(files, "requirements.txt", content[1])
                         /\ Goto(IF InstallsRequirements(args.setup)
                                   THEN "uv_add" ELSE After("uv_sync"))
                         /\ UNCHANGED fsEntry
                    ELSE Bail("write_requirements") /\ UNCHANGED files
    /\ UNCHANGED <<args, token, cwd, gitGlobal, gitLocal, uvCallable,
                   installed, stdout, prompts, spawned, http, repo, remote>>

\* create_requirements_file, line 217: uv add -r requirements.txt
UvAdd ==
    /\ pc = "uv_add"
    /\ Spawn("uv add -r requirements.txt")
    /\ \E o \in UvOutcomes :
         IF RunOk(o)
           THEN /\ files' = Put(files, "uv.lock", "uv")
                /\ Goto(After("uv_add"))
                /\ UNCHANGED fsEntry
           ELSE Bail("uv_add") /\ UNCHANGED files
    /\ UNCHANGED <<args, token, cwd, gitGlobal, gitLocal, uvCallable,
                   installed, stdout, prompts, http, repo, remote>>

\* create_requirements_file, line 218: uv sync
UvSync ==
    /\ pc = "uv_sync"
    /\ Spawn("uv sync")
    /\ \E o \in UvOutcomes :
         IF RunOk(o)
           THEN Goto(After("uv_sync")) /\ UNCHANGED fsEntry
           ELSE Bail("uv_sync")
    /\ UNCHANGED <<args, token, files, cwd, gitGlobal, gitLocal, uvCallable,
                   installed, stdout, prompts, http, repo, remote>>

\* download_and_write_file: GET the url; on a success status read the body
\* and write it to filename.
DownloadAndWriteFile(step, url, filename) ==
    /\ pc = step
    /\ \E r \in Responses, o \in IoOutcomes :
         /\ http' = Append(http, [method |-> "GET", url |-> url, bearer |-> <<>>,
                                  name |-> <<>>, private |-> FALSE, resp |-> r])
         /\ IF ~r.transport /\ IsSuccess(r.status) /\ r.body_ok /\ o = "ok"
              THEN /\ files' = Put(files, filename, Body(url))
                   /\ Goto(After(step))
                   /\ UNCHANGED fsEntry
              ELSE Bail(step) /\ UNCHANGED files
    /\ UNCHANGED <<args, token, cwd, gitGlobal, gitLocal, uvCallable,
                   installed, stdout, prompts, spawned, repo, remote>>

\* main, line 105
DownloadGitignore == DownloadAndWriteFile("get_gitignore", "GITIGNORE_URL", ".gitignore")

\* main, line 108
DownloadLicense == DownloadAndWriteFile("get_license", "LICENSE_URL", "LICENSE")

----------------------------------------------------------------------------
(* main(): local repository, GitHub *)

\* git_command through run(): one git invocation in the working directory;
\* `result` is the repository it leaves when it succeeds.
GitCommand(step, cmd, result) ==
    /\ pc = step
    /\ Spawn(cmd)
    /\ \E o \in ProcOutcomes :
         IF RunOk(o)
           THEN /\ repo' = result
                /\ Goto(After(step))
                /\ UNCHANGED fsEntry
           ELSE Bail(step) /\ UNCHANGED repo
    /\ UNCHANGED <<args, token, files, cwd, gitGlobal, gitLocal, uvCallable,
                   installed, stdout, prompts, http, remote>>

\* initialize_git_repo, line 255
GitInit ==
    GitCommand("git_init", "git init",
               [repo EXCEPT !.inited = TRUE, !.branch = "master"])

\* initialize_git_repo, line 256
GitAutocrlf ==
    GitCommand("git_autocrlf", "git config core.autocrlf true",
               [repo EXCEPT !.autocrlf = TRUE])

\* initialize_git_repo, line 257
GitAdd ==
    GitCommand("git_add", "git add .",
               [repo EXCEPT !.staged = Stageable(files)])

\* A variant of GitCommit: the GitHub branch of main is taken whether or not
\* it was asked for.
GitCommitThenGithub ==
    /\ pc = "git_commit"
    /\ Spawn("git commit -m Initial commit")
    /\ \E o \in ProcOutcomes :
         IF RunOk(o)
           THEN /\ repo' = [repo EXCEPT !.commits = Append(@, repo.staged)]
                /\ Goto(After("git_commit"))
                /\ UNCHANGED fsEntry
           ELSE Bail("git_commit") /\ UNCHANGED repo
    /\ UNCHANGED <<args, token, files, cwd, gitGlobal, gitLocal, uvCallable,
                   installed, stdout, prompts, http, remote>>

\* initialize_git_repo, line 258, and main, line 123: commit, then take the
\* GitHub branch only when it was asked for.
GitCommit ==
    /\ pc = "git_commit"
    /\ Spawn("git commit -m Initial commit")
    /\ \E o \in ProcOutcomes :
         IF RunOk(o)
           THEN /\ repo' = [repo EXCEPT !.commits = Append(@, repo.staged)]
                /\ Goto(IF args.github_repo THEN After("git_commit") ELSE "completed")
                /\ UNCHANGED fsEntry
           ELSE Bail("git_commit") /\ UNCHANGED repo
    /\ UNCHANGED <<args, token, files, cwd, gitGlobal, gitLocal, uvCallable,
                   installed, stdout, prompts, http, remote>>

\* validate_env_vars, called at main line 129
ValidateEnvVars ==
    /\ pc = "validate_env_vars"
    /\ IF EnvVarIsErr(token)
         THEN Bail("validate_env_vars")
         ELSE Goto(After("validate_env_vars")) /\ UNCHANGED fsEntry
    /\ UNCHANGED <<args, token, files, cwd, gitGlobal, gitLocal, uvCallable,
                   installed, stdout, prompts, spawned, http, repo, remote>>

\* create_github_repo: read the token, POST {name, private} with it as the
\* bearer, fail on a transport error or a non-success status.
CreateGithubRepo ==
    /\ pc = "post_repo"
    /\ IF EnvVarIsErr(token)
         THEN Bail("post_repo") /\ UNCHANGED <<http, remote>>
         ELSE \E r \in PostResponses(token[1]) :
                /\ http' = Append(http, [method |-> "POST", url |-> "api.github.com/user/repos",
                                         bearer |-> token, name |-> RepoName,
                                         private |-> args.private, resp |-> r])
                /\ IF ~r.transport /\ IsSuccess(r.status)
                     THEN /\ remote' = remote \cup {[name |-> RepoName, private |-> args.private]}
                          /\ Goto(After("post_repo"))
                          /\ UNCHANGED fsEntry
                     ELSE Bail("post_repo") /\ UNCHANGED remote
    /\ UNCHANGED <<args, token, files, cwd, gitGlobal, gitLocal, uvCallable,
                   installed, stdout, prompts, spawned, repo>>

\* setup_github_remote, line 271
GitBranch ==
    GitCommand("git_branch", "git branch -M main",
               [repo EXCEPT !.branch = "main"])

\* get_git_username, lines 359-363: read user.name from the global scope;
\* the exit status is not inspected.
GitUsername ==
    /\ pc = "git_username"
    /\ Spawn("git config --global user.name")
    /\ \E o \in {"spawn_err", "ran"} :
         IF OutputOk(o)
           THEN /\ stdout' = ConfigOutput(gitGlobal["user.name"])
                /\ Goto(After("git_username"))
                /\ UNCHANGED fsEntry
           ELSE Bail("git_username") /\ UNCHANGED stdout
    /\ UNCHANGED <<args, token, files, cwd, gitGlobal, gitLocal, uvCallable,
                   installed, prompts, http, repo, remote>>

\* get_git_username, lines 365-370, and setup_github_remote, lines 273-274:
\* trim the output, build the URL, register it as origin.
GitRemoteAdd ==
    GitCommand("git_remote_add", "git remote add origin <remote_url>",
               [repo EXCEPT !.origin = <<RemoteUrl(Trim(stdout), RepoName)>>])

\* setup_github_remote, line 275
GitPush ==
    GitCommand("git_push", "git push -u origin main",
               [repo EXCEPT !.pushed = TRUE])

\* main, lines 142-150: Ok(())
Completed ==
    /\ pc = "completed"
    /\ pc' = "done"
    /\ exit' = "ok"
    /\ UNCHANGED <<args, token, fsEntry, files, cwd, gitGlobal, gitLocal, uvCallable,
                   installed, stdout, prompts, spawned, http, repo, remote, failedAt>>

----------------------------------------------------------------------------
Next ==
    \/ MetadataCheck
    \/ CreateDir
    \/ \E key \in GitKeys : GitConfigGet(key)
    \/ \E key \in GitKeys : GitConfigSet(key)
    \/ UvVersion
    \/ PipInstall
    \/ SetCurrentDir
    \/ UvInit
    \/ UvVenv
    \/ WriteRequirements
    \/ UvAdd
    \/ UvSync
    \/ DownloadGitignore
    \/ DownloadLicense
    \/ GitInit
    \/ GitAutocrlf
    \/ GitAdd
    \/ GitCommit
    \/ ValidateEnvVars
    \/ CreateGithubRepo
    \/ GitBranch
    \/ GitUsername
    \/ GitRemoteAdd
    \/ GitPush
    \/ Completed

Spec == Init /\ [][Next]_vars

\* Every call main() awaits returns: a step that can be taken is taken.
FairSpec == Spec /\ WF_vars(Next)

----------------------------------------------------------------------------
(* Vocabulary of the properties *)

Recognized == {"basic", "advanced", "data-science", "blank"}
Cmds == {spawned[i].cmd : i \in DOMAIN spawned}
Urls == {http[i].url : i \in DOMAIN http}
Posts == {i \in DOMAIN http : http[i].method = "POST"}
Finished == pc = "done"

\* The position of a command in the log of spawned commands (0: not spawned).
Pos(cmd) ==
    IF cmd \in Cmds THEN CHOOSE i \in DOMAIN spawned : spawned[i].cmd = cmd ELSE 0

----------------------------------------------------------------------------
(* C1 *)

\* What one step does when the project name already exists.
ExistingEntryStep ==
    fsEntry \in {"file", "dangling"} =>
        /\ fsEntry' = fsEntry
        /\ spawned' = <<>> /\ http' = <<>> /\ prompts' = <<>>
        /\ files' = <<>> /\ cwd' = "start"
        /\ gitGlobal' = gitGlobal /\ installed' = {} /\ repo' = NoRepo /\ remote' = {}
        /\ exit' # "ok"
        /\ (pc' = "done" => exit' = "err")

\* C1: when the project name already exists as a file system entry, every
\* step of the run leaves the entry as it is, spawns no process, sends no
\* request, writes no file, keeps the working directory and the git
\* configuration, and the run can only end with the failure exit.
C1_ExistingEntryFailsUntouched == [][ExistingEntryStep]_vars

C1_Witness ==
    /\ fsEntry = "file" /\ Finished /\ exit = "err" /\ failedAt = "metadata"
    /\ spawned = <<>> /\ http = <<>>

----------------------------------------------------------------------------
(* C2 - C5: what exists before the project directory is created *)

\* C2: with a setup type that is none of basic, advanced, data-science and
\* blank, the project directory never exists and nothing else has happened.
C2_UnknownSetupNoDirectory ==
    args.setup \notin Recognized =>
        /\ fsEntry # "created"
        /\ spawned = <<>> /\ http = <<>> /\ files = <<>>

\* C3: with GitHub integration asked for and GITHUB_TOKEN unset, the project
\* directory is never created, no file is written and no repository or commit
\* is made.
C3_MissingTokenNoDirectory ==
    (args.github_repo /\ token = <<>>) =>
        /\ fsEntry # "created"
        /\ files = <<>>
        /\ repo = NoRepo

\* C4: with GitHub integration asked for and GITHUB_TOKEN unset or empty, the
\* repository-creation POST is never sent and a finished run has failed in the
\* credential validation.
C4_EmptyTokenLikeAbsent ==
    (args.github_repo /\ token \in {<<>>, << <<>> >>}) =>
        /\ Posts = {}
        /\ (Finished /\ fsEntry = "created" /\ Len(repo.commits) = 1
              => exit = "err" /\ failedAt = "validate_env_vars")

\* C5: the project directory exists only after both identity checks and the
\* check of uv have completed successfully, so a run that failed in one of
\* them has left no directory.
C5_DirectoryAfterChecks ==
    /\ fsEntry = "created" =>
         /\ {"git config --get user.name", "git config --get user.email",
             "uv --version"} \subseteq Cmds
         /\ pc \notin {"get_user.name", "set_user.name", "get_user.email",
                       "set_user.email", "uv_version", "pip_install"}
    /\ failedAt \in {"get_user.name", "set_user.name", "get_user.email",
                     "set_user.email", "pip_install"} => fsEntry # "created"

----------------------------------------------------------------------------
(* C6: requirements.txt and the installation of the requirements *)

ManifestWritten == "requirements.txt" \in DOMAIN files

\* The blank template: the file is empty, uv add and uv sync are never run.
BlankNeverInstalls ==
    args.setup = "blank" =>
        /\ "uv add -r requirements.txt" \notin Cmds
        /\ "uv sync" \notin Cmds
        /\ (ManifestWritten => files["requirements.txt"] = "")

\* uv add runs after the file was written, uv sync after uv add.
InstallOrder ==
    /\ "uv add -r requirements.txt" \in Cmds =>
         /\ ManifestWritten
         /\ files["requirements.txt"] = TemplateContent(args.setup)[1]
    /\ "uv sync" \in Cmds =>
         /\ Pos("uv add -r requirements.txt") > 0
         /\ Pos("uv add -r requirements.txt") < Pos("uv sync")

\* C6 as stated: once the manifest of a non-blank template is written, the
\* run does not end without both uv add and uv sync having been spawned (and
\* the blank template never installs).
C6_BothInstallsAlwaysSpawned ==
    /\ BlankNeverInstalls
    /\ InstallOrder
    /\ (args.setup \in Recognized \ {"blank"} /\ ManifestWritten /\ Finished) =>
         {"uv add -r requirements.txt", "uv sync"} \subseteq Cmds

\* C6, amended: the blank template writes an empty file and never spawns
\* uv add or uv sync; for the other three templates uv add is spawned once the
\* manifest is written, and uv sync is spawned after it exactly when uv add
\* succeeded.
C6_InstallSkippedIffBlank ==
    /\ BlankNeverInstalls
    /\ InstallOrder
    /\ (args.setup \in Recognized \ {"blank"} /\ ManifestWritten) =>
         /\ pc # "uv_add" => "uv add -r requirements.txt" \in Cmds
         /\ pc \notin {"uv_add", "uv_sync"} =>
              ("uv sync" \in Cmds <=> failedAt # "uv_add")

C6_Witness ==
    /\ args.setup = "blank" /\ ManifestWritten /\ files["requirements.txt"] = ""
    /\ exit = "ok" /\ "uv sync" \notin Cmds

----------------------------------------------------------------------------
(* C7: a failed download *)

Failed(r) == r.transport \/ r.status < 200 \/ r.status > 299

GitignoreFailed ==
    \E i \in DOMAIN http : http[i].url = "GITIGNORE_URL" /\ Failed(http[i].resp)
LicenseFailed ==
    \E i \in DOMAIN http : http[i].url = "LICENSE_URL" /\ Failed(http[i].resp)
RepositoryInitRan ==
    \/ repo # NoRepo
    \/ Cmds \cap {"git init", "git config core.autocrlf true", "git add .",
                  "git commit -m Initial commit"} # {}

\* C7: when the GET of the ignore rules ends with a transport failure or a
\* status outside 200..299, the run has ended in failure, neither .gitignore
\* nor LICENSE is written, the license is never requested and no git command
\* of the repository initialisation runs; a failed GET of the license leaves
\* LICENSE unwritten and prevents the repository initialisation as well.
C7_FailedDownloadHalts ==
    /\ GitignoreFailed =>
         /\ Finished /\ exit = "err"
         /\ ".gitignore" \notin DOMAIN files
         /\ "LICENSE" \notin DOMAIN files
         /\ "LICENSE_URL" \notin Urls
         /\ ~RepositoryInitRan
    /\ LicenseFailed =>
         /\ Finished /\ exit = "err"
         /\ "LICENSE" \notin DOMAIN files
         /\ ~RepositoryInitRan

C7_Witness ==
    /\ GitignoreFailed
    /\ http[Len(http)].resp.status = 404
    /\ Finished /\ failedAt = "get_gitignore"

----------------------------------------------------------------------------
(* C8: order of the steps *)

IdentityBeforeUv ==
    "uv --version" \in Cmds =>
        /\ 0 < Pos("git config --get user.name")
        /\ Pos("git config --get user.name") < Pos("git config --get user.email")
        /\ Pos("git config --get user.email") < Pos("uv --version")
        /\ \A k \in GitKeys : EffectiveConfig(k) # <<>>
        /\ \A c \in {"git config --global user.name <input>",
                     "git config --global user.email <input>"} :
             c \in Cmds => Pos(c) < Pos("uv --version")

DirectoryBeforeManifest ==
    ManifestWritten => fsEntry = "created" /\ cwd = "project"

Assets == {"requirements.txt", ".gitignore", "LICENSE"}

AssetsBeforeCommit ==
    /\ (Cmds \cap {"git add .", "git commit -m Initial commit"} # {} \/ repo.staged # {}) =>
         /\ Assets \subseteq DOMAIN files
         /\ {"GITIGNORE_URL", "LICENSE_URL"} \subseteq Urls
         /\ \A i \in DOMAIN http :
              http[i].method = "GET" => ~Failed(http[i].resp) /\ http[i].resp.body_ok
    /\ \A i \in DOMAIN repo.commits : Assets \subseteq repo.commits[i]

\* C8: when uv is probed both identity checks have run, in order, and left
\* both keys configured; when requirements.txt is written the project
\* directory exists; when the repository is staged or committed both downloads
\* have succeeded and their files are written, so that the commit holds
\* requirements.txt, .gitignore and LICENSE.
C8_EarlierStepCompleted ==
    /\ IdentityBeforeUv
    /\ DirectoryBeforeManifest
    /\ AssetsBeforeCommit

C8_Witness ==
    /\ exit = "ok"
    /\ Len(repo.commits) = 1 /\ Assets \subseteq repo.commits[1]
    /\ prompts = <<"user.name", "user.email">>

----------------------------------------------------------------------------
(* C9: fail fast *)

\* What shows that a step has acted.
Acted(step) ==
    CASE step = "create_dir" -> fsEntry = "created"
      [] step = "get_user.name" -> "git config --get user.name" \in Cmds
      [] step = "set_user.name" -> "git config --global user.name <input>" \in Cmds
      [] step = "get_user.email" -> "git config --get user.email" \in Cmds
      [] step = "set_user.email" -> "git config --global user.email <input>" \in Cmds
      [] step = "uv_version" -> "uv --version" \in Cmds
      [] step = "pip_install" -> "pip install uv" \in Cmds \/ installed # {}
      [] step = "set_current_dir" -> cwd = "project"
      [] step = "uv_init" -> "uv init ." \in Cmds \/ "pyproject.toml" \in DOMAIN files
      [] step = "uv_venv" -> "uv venv .venv" \in Cmds \/ ".venv" \in DOMAIN files
      [] step = "write_requirements" -> ManifestWritten
      [] step = "uv_add" -> "uv add -r requirements.txt" \in Cmds \/ "uv.lock" \in DOMAIN files
      [] step = "uv_sync" -> "uv sync" \in Cmds
      [] step = "get_gitignore" -> "GITIGNORE_URL" \in Urls \/ ".gitignore" \in DOMAIN files
      [] step = "get_license" -> "LICENSE_URL" \in Urls \/ "LICENSE" \in DOMAIN files
      [] step = "git_init" -> "git init" \in Cmds \/ repo.inited
      [] step = "git_autocrlf" -> "git config core.autocrlf true" \in Cmds \/ repo.autocrlf
      [] step = "git_add" -> "git add ." \in Cmds \/ repo.staged # {}
      [] step = "git_commit" -> "git commit -m Initial commit" \in Cmds \/ repo.commits # <<>>
      [] step = "post_repo" -> Posts # {} \/ remote # {}
      [] step = "git_branch" -> "git branch -M main" \in Cmds \/ repo.branch = "main"
      [] step = "git_username" -> "git config --global user.name" \in Cmds
      [] step = "git_remote_add" ->
             "git remote add origin <remote_url>" \in Cmds \/ repo.origin # <<>>
      [] step = "git_push" -> "git push -u origin main" \in Cmds \/ repo.pushed
      [] step = "completed" -> exit = "ok"
      [] OTHER -> FALSE

\* The steps whose success leaves a mark of its own in the state.
Marked ==
    {"create_dir", "pip_install", "set_current_dir", "uv_init", "uv_venv",
     "write_requirements", "uv_add", "get_gitignore", "get_license",
     "git_init", "git_autocrlf", "git_add", "git_commit", "post_repo",
     "git_branch", "git_remote_add", "git_push"}

\* What a step leaves only when it succeeded.
Succeeded(step) ==
    CASE step = "write_requirements" -> ManifestWritten
      [] step = "pip_install" -> installed # {}
      [] step = "uv_init" -> "pyproject.toml" \in DOMAIN files
      [] step = "uv_venv" -> ".venv" \in DOMAIN files
      [] step = "uv_add" -> "uv.lock" \in DOMAIN files
      [] step = "get_gitignore" -> ".gitignore" \in DOMAIN files
      [] step = "get_license" -> "LICENSE" \in DOMAIN files
      [] step = "git_init" -> repo.inited
      [] step = "git_autocrlf" -> repo.autocrlf
      [] step = "git_add" -> repo.staged # {}
      [] step = "git_commit" -> Len(repo.commits) = 1
      [] step = "post_repo" -> remote # {}
      [] step = "git_branch" -> repo.branch = "main"
      [] step = "git_remote_add" -> repo.origin # <<>>
      [] step = "git_push" -> repo.pushed
      [] OTHER -> Acted(step)

StepNames == {MainSteps[i] : i \in DOMAIN MainSteps}

NoRetry ==
    /\ \A i, j \in DOMAIN spawned : spawned[i].cmd = spawned[j].cmd => i = j
    /\ \A i, j \in DOMAIN http : http[i].url = http[j].url => i = j
    /\ \A i, j \in DOMAIN prompts : prompts[i] = prompts[j] => i = j

\* C9: once a step has returned an error the run is over with the failure
\* exit, the failed step has left nothing of what it leaves on success, no
\* later step has acted, and no command, request or prompt is issued twice;
\* the run exits with success only without a failed step and with every step
\* it executed having succeeded.
C9_FailFast ==
    /\ failedAt # "none" =>
         /\ Finished /\ exit = "err"
         /\ failedAt \in StepNames
         /\ failedAt \in Marked => ~Succeeded(failedAt)
         /\ \A s \in StepNames : IndexOf(s) > IndexOf(failedAt) => ~Acted(s)
    /\ NoRetry
    /\ exit # "running" <=> Finished
    /\ exit = "ok" =>
         /\ failedAt = "none"
         /\ \A s \in StepNames : Acted(s) => Succeeded(s)
         /\ \A i \in DOMAIN http : ~Failed(http[i].resp)

C9_Witness ==
    /\ failedAt = "get_license" /\ Finished /\ exit = "err"
    /\ http[Len(http)].resp.transport
    /\ ".gitignore" \in DOMAIN files

----------------------------------------------------------------------------
(* C10: no rollback *)

IsPrefix(s, t) == Len(s) <= Len(t) /\ SubSeq(t, 1, Len(s)) = s

\* Nothing a step has applied is taken back by a later step.
KeepsEffects ==
    /\ fsEntry = "created" => fsEntry' = "created"
    /\ \A n \in DOMAIN files : n \in DOMAIN files' /\ (n \in Assets => files'[n] = files[n])
    /\ cwd = "project" => cwd' = "project"
    /\ \A k \in GitKeys : gitGlobal[k] # <<>> => gitGlobal'[k] = gitGlobal[k]
    /\ installed \subseteq installed'
    /\ repo.inited => repo'.inited
    /\ repo.autocrlf => repo'.autocrlf
    /\ repo.staged \subseteq repo'.staged
    /\ IsPrefix(repo.commits, repo'.commits)
    /\ repo.origin # <<>> => repo'.origin = repo.origin
    /\ repo.pushed => repo'.pushed
    /\ remote \subseteq remote'

\* C10: every step of a run, the failing one included, keeps the project
\* directory, the files written, the repository state and its commit, the
\* global identity values set and the remote repository created so far.
C10_NoRollback == [][KeepsEffects]_vars

C10_Witness ==
    /\ failedAt = "git_push" /\ Finished
    /\ fsEntry = "created" /\ Assets \subseteq DOMAIN files
    /\ Len(repo.commits) = 1 /\ remote # {}
    /\ prompts # <<>>

----------------------------------------------------------------------------
(* C11: the identity after the identity check *)

\* A step after the two identity checks has executed.
PastIdentityCheck == "uv --version" \in Cmds

Solicited == {prompts[i] : i \in DOMAIN prompts}

\* C11: once a step after the identity checks has executed, every key that
\* was found unset and asked for on standard input holds a non-empty value in
\* the global git configuration, whatever line was typed.
C11_SolicitedIdentityNonEmpty ==
    PastIdentityCheck =>
        \A k \in Solicited :
            /\ gitGlobal[k] # <<>>
            /\ gitGlobal[k][1] # <<>>

----------------------------------------------------------------------------
(* C12: state outside the project directory *)

IdentitySteps == {"set_user.name", "set_user.email"}

\* C12 as stated: a step other than the identity check changes nothing
\* outside the project directory (git configuration, Python environment,
\* hosting service).
OnlyIdentityStep ==
    pc \notin IdentitySteps => UNCHANGED <<gitGlobal, gitLocal, installed, remote>>

C12_OnlyIdentityCheckMutatesOutside == [][OnlyIdentityStep]_vars

\* Where each change outside the project directory comes from.
OutsideChanges ==
    /\ gitLocal' = gitLocal
    /\ \A k \in GitKeys :
         gitGlobal'[k] # gitGlobal[k] =>
             /\ pc = SetStep[k]
             /\ EffectiveConfig(k) = <<>>
             /\ \A j \in GitKeys \ {k} : gitGlobal'[j] = gitGlobal[j]
    /\ installed' # installed =>
         /\ pc = "pip_install"
         /\ installed' = installed \cup {"uv"}
         /\ spawned[Len(spawned)].cmd = "uv --version"
    /\ remote' # remote => pc = "post_repo" /\ args.github_repo

\* C12, amended: the global identity configuration is written only during
\* the identity check and only for the key whose read value was empty; the
\* only other changes outside the project directory are the installation of
\* uv by pip right after a failed probe and the repository created at the
\* hosting service when GitHub integration is asked for.
C12_OutsideChangesAccounted == [][OutsideChanges]_vars

C12_Witness ==
    /\ installed = {"uv"}
    /\ prompts = <<"user.name">>
    /\ gitGlobal["user.name"] = << <<"b">> >>
    /\ remote # {}

----------------------------------------------------------------------------
(* C13: without GitHub integration *)

GithubSteps ==
    {"validate_env_vars", "post_repo", "git_branch", "git_username",
     "git_remote_add", "git_push"}

GithubCmds ==
    {"git branch -M main", "git config --global user.name",
     "git remote add origin <remote_url>", "git push -u origin main"}

\* C13: without --github-repo the run never reaches the credential check,
\* sends no POST, creates no remote repository, does not rename the branch,
\* registers no origin and does not push; after the commit it only completes.
C13_NoGithubNoRemoteEffect ==
    ~args.github_repo =>
        /\ pc \notin GithubSteps /\ failedAt \notin GithubSteps
        /\ Posts = {} /\ remote = {}
        /\ Cmds \cap GithubCmds = {}
        /\ repo.branch # "main" /\ repo.origin = <<>> /\ ~repo.pushed
        /\ repo.commits # <<>> => pc \in {"completed", "done"} /\ exit # "err"

C13_Witness ==
    /\ ~args.github_repo /\ token = <<>>
    /\ exit = "ok" /\ Len(repo.commits) = 1

----------------------------------------------------------------------------
(* C14: order of the GitHub integration *)

PostFailed == \E i \in Posts : Failed(http[i].resp)

\* C14: the POST is sent only with the token present and the commit made;
\* the branch is renamed only after a POST answered with a success status;
\* the user name is read after the rename, origin is registered after the
\* read, the push follows the registration; a POST that failed ends the run
\* without rename, origin or push.
C14_GithubStepsInOrder ==
    /\ Posts # {} =>
         /\ token # <<>>
         /\ Len(repo.commits) = 1
         /\ Cardinality(Posts) = 1
    /\ "git branch -M main" \in Cmds =>
         /\ ~PostFailed /\ Posts # {}
         /\ remote = {[name |-> RepoName, private |-> args.private]}
         /\ Pos("git commit -m Initial commit") < Pos("git branch -M main")
    /\ "git config --global user.name" \in Cmds =>
         /\ repo.branch = "main"
         /\ Pos("git branch -M main") < Pos("git config --global user.name")
    /\ "git remote add origin <remote_url>" \in Cmds =>
         /\ 0 < Pos("git config --global user.name")
         /\ Pos("git config --global user.name") < Pos("git remote add origin <remote_url>")
    /\ "git push -u origin main" \in Cmds =>
         /\ repo.origin # <<>> /\ remote # {}
         /\ Pos("git remote add origin <remote_url>") < Pos("git push -u origin main")
    /\ repo.pushed => remote # {} /\ repo.branch = "main"
    /\ PostFailed =>
         /\ Finished /\ exit = "err" /\ failedAt = "post_repo"
         /\ remote = {}
         /\ Cmds \cap GithubCmds = {}
         /\ repo.branch # "main" /\ repo.origin = <<>> /\ ~repo.pushed

C14_Witness ==
    /\ args.github_repo /\ repo.pushed /\ exit = "ok"
    /\ repo.branch = "main" /\ repo.origin # <<>>

----------------------------------------------------------------------------
(* C15: the completed project *)

\* C15: the repository never holds more than one commit and the commit
\* command is spawned at most once; a run that completed has exactly one
\* commit, with or without GitHub integration, and requirements.txt,
\* .gitignore and LICENSE are in the project directory.
C15_OneCommitAtCompletion ==
    /\ Len(repo.commits) <= 1
    /\ Cardinality({i \in DOMAIN spawned :
                      spawned[i].cmd = "git commit -m Initial commit"}) <= 1
    /\ (pc = "completed" \/ exit = "ok") =>
         /\ Len(repo.commits) = 1
         /\ repo.inited
         /\ fsEntry = "created"
         /\ Assets \subseteq DOMAIN files

C15_Witness ==
    /\ exit = "ok" /\ args.github_repo /\ repo.pushed
    /\ Len(repo.commits) = 1 /\ Assets \subseteq DOMAIN files

----------------------------------------------------------------------------
(* C16: the working directory *)

\* Environment init, manifest write, dependency install, asset writes,
\* repository init and GitHub integration.
ProjectSteps ==
    {"uv_init", "uv_venv", "write_requirements", "uv_add", "uv_sync",
     "get_gitignore", "get_license", "git_init", "git_autocrlf", "git_add",
     "git_commit"} \cup GithubSteps

StartCmds ==
    {"git config --get user.name", "git config --get user.email",
     "git config --global user.name <input>", "git config --global user.email <input>",
     "uv --version", "pip install uv"}

WorkingDirectoryStep ==
    /\ cwd' # cwd => cwd = "start" /\ cwd' = "project" /\ pc = "set_current_dir"
    /\ cwd = "project" => cwd' = "project"
    /\ pc \in ProjectSteps => cwd = "project" /\ fsEntry = "created"
    /\ \A i \in DOMAIN spawned' :
         spawned'[i].cmd \notin StartCmds => spawned'[i].cwd = "project"

\* C16: the working directory changes only in set_current_dir, from the
\* start directory to the project directory, and no step, failing or not,
\* changes it back; environment init, manifest write, dependency install, the
\* downloads, repository init and the GitHub integration all execute, and
\* spawn their processes, in the project directory.
C16_OneWayWorkingDirectory == [][WorkingDirectoryStep]_vars

C16_Witness ==
    /\ cwd = "project" /\ failedAt = "uv_add" /\ Finished
    /\ spawned[Len(spawned)] = [cmd |-> "uv add -r requirements.txt", cwd |-> "project"]

----------------------------------------------------------------------------
(* C17: the check of uv *)

EnvironmentInitStarted == pc = "uv_init" \/ "uv init ." \in Cmds

\* pip is run at most once, directly after the probe, never after a probe
\* that cannot fail; a failed install ends the run before uv init.
SelfInstallOnlyAfterProbe ==
    /\ Cardinality({i \in DOMAIN spawned : spawned[i].cmd = "pip install uv"}) <= 1
    /\ "pip install uv" \in Cmds =>
         /\ 0 < Pos("uv --version")
         /\ Pos("pip install uv") = Pos("uv --version") + 1
    /\ failedAt = "pip_install" =>
         /\ Finished /\ exit = "err"
         /\ ~EnvironmentInitStarted

\* C17: the self-install is attempted only after a failed probe and at most
\* once, a failed self-install ends the run before EnvironmentInit, and
\* whenever EnvironmentInit starts uv can be called.
C17_UvCallableAtEnvironmentInit ==
    /\ SelfInstallOnlyAfterProbe
    /\ EnvironmentInitStarted => uvCallable

----------------------------------------------------------------------------
(* C18: the name of the remote repository *)

\* The positions of the "/" separators of a URL.
Slashes(url) == {i \in DOMAIN url : url[i] = "/"}

\* The last path segment of a URL without its ".git" suffix.
NameSegment(url) ==
    LET last == CHOOSE i \in Slashes(url) : \A j \in Slashes(url) : j <= i
    IN SubSeq(url, last + 1, Len(url) - 1)

ExpectedRepoName ==
    IF args.github_repo_name = <<>> THEN args.name ELSE args.github_repo_name[1]

\* C18: the POST carries the given repository name, or the project name when
\* none is given, and the private flag of the request; the origin URL ends in
\* the same name followed by ".git".
C18_SameRepoNameInPostAndUrl ==
    /\ \A i \in Posts :
         /\ http[i].name = ExpectedRepoName
         /\ http[i].private = args.private
    /\ \A r \in remote : r.name = ExpectedRepoName /\ r.private = args.private
    /\ repo.origin # <<>> =>
         /\ Slashes(repo.origin[1]) # {}
         /\ repo.origin[1][Len(repo.origin[1])] = ".git"
         /\ NameSegment(repo.origin[1]) = ExpectedRepoName
         /\ \E i \in Posts : http[i].name = NameSegment(repo.origin[1])

C18_Witness ==
    /\ args.github_repo_name = << <<"r">> >> /\ args.private
    /\ repo.pushed
    /\ NameSegment(repo.origin[1]) = <<"r">>

----------------------------------------------------------------------------
(* C19: the owner of the remote URL *)

\* The path segment of a URL between the host and the repository name.
OwnerSegment(url) ==
    LET last == CHOOSE i \in Slashes(url) : \A j \in Slashes(url) : j <= i
    IN SubSeq(url, 2, last - 1)

\* C19: when origin is registered, the owner segment of its URL is not empty
\* and is the value of user.name that the identity check found or stored.
C19_OwnerIsCheckedIdentity ==
    repo.origin # <<>> =>
        /\ OwnerSegment(repo.origin[1]) # <<>>
        /\ EffectiveConfig("user.name") # <<>>
        /\ OwnerSegment(repo.origin[1]) = EffectiveConfig("user.name")[1]

----------------------------------------------------------------------------
(* C20: termination *)

\* The place of a position in program order; the end of the run comes last.
Rank(p) == IF p = "done" THEN Len(MainSteps) + 1 ELSE IndexOf(p)

\* Every step moves main() to a later position.
Advances == Rank(pc') > Rank(pc)

Terminal == Finished /\ exit \in {"ok", "err"} /\ (exit = "err" <=> failedAt # "none")

\* C20: when every awaited call returns, the run reaches its end, with the
\* success exit or the failure exit, and stays there; no step returns to an
\* earlier position or repeats the current one.
C20_Terminates == <>[]Terminal /\ [][Advances]_vars

C20_Witness ==
    /\ Finished /\ exit = "ok" /\ args.github_repo
    /\ Len(spawned) >= 13

====
